---------------------------- MODULE Spec2Model ----------------------------
(***************************************************************************)
(* A model of the three scripts of esi-scripts:                            *)
(*   extract_energies.py  - scans Gaussian logs for five energy markers    *)
(*                          and prints one tab-separated row per file;     *)
(*   create_adf_esi.py    - writes per-file xyz files or one concatenated  *)
(*                          multi-structure ("cif") file;                  *)
(*   create_uv_plot.py    - pairs excitation energies with oscillator      *)
(*                          strengths and writes .dat / .plt files.        *)
(*                                                                         *)
(* Four specifications share the variables below:                          *)
(*   SpecScan      extract_data, one log line per step;                    *)
(*   SpecEnergies  the batch loop of extract_energies.py;                  *)
(*   SpecAdf       main of create_adf_esi.py;                              *)
(*   SpecUv        main of create_uv_plot.py.                              *)
(* Each specification leaves the other scripts' variables at their idle    *)
(* values.                                                                 *)
(***************************************************************************)
EXTENDS Integers, Sequences, FiniteSets

VARIABLES
    files,        \* the logs named on the command line, in order, as they are on disk
    \* ---- extract_data (extract_energies.py:59-73), line by line
    sc_pc,        \* "scan" | "done" (row printed) | "error" (exception) | "idle"
    energies,     \* the local dict: a function from the found fields to floats
    nread,        \* number of lines read so far
    matched,      \* history: the markers that matched at least one line
    lastMarks,    \* history: the markers the last line read matched
    lastParsed,   \* history: per matched marker, the value parsed on the last line carrying it
    firstScf,     \* history: the value parsed on the first 'SCF Done' line (BadTok: none yet)
    \* ---- batch loop of extract_energies.py
    en_pc,        \* "loop" | "done" | "abort" (uncaught exception)
    full,         \* runvalues['full']
    k,            \* number of files whose row has been printed
    data,         \* the record extract_data returned for the last file
    stdout,       \* the rows printed so far
    err,          \* the exception that ended the run ("" when none)
    \* ---- create_adf_esi.py
    adf_pc,       \* "start" | "parsed" | "xyz" | "done" | "abort"
    output_format,
    list_of_raw_files,
    parsed_files,
    coordinates,  \* write_cif's local list of the geometries it took
    cif,          \* the text written to the output file (<<>> while unwritten)
    cif_written,  \* whether the output file was written
    xyz_files,    \* the per-file .txt artifacts written in xyz mode
    \* ---- create_uv_plot.py
    uv_pc,        \* "start" | "loop" | "done" | "abort"
    ui,           \* index of the file of the last loop iteration (0: none yet)
    file,         \* the parsed log of the last loop iteration
    transitions,  \* what get_transitions returned for it
    dat,          \* the rows written to its .dat file
    artifacts     \* the indices of the files whose .dat and .plt were written

scanVars == <<sc_pc, energies, nread, matched, lastMarks, lastParsed, firstScf>>
enVars   == <<en_pc, full, k, data, stdout, err>>
adfVars  == <<adf_pc, output_format, list_of_raw_files, parsed_files,
              coordinates, cif, cif_written, xyz_files>>
uvVars   == <<uv_pc, ui, file, transitions, dat, artifacts>>
vars     == <<files, scanVars, enVars, adfVars, uvVars>>

(***************************************************************************)
(* Bounds of the model.                                                    *)
(***************************************************************************)
MaxLines == 3
MaxMarks == 2
MaxFiles == 3
MaxCclibFiles == 2
MaxFrames == 2
MaxAtoms == 2
MaxTrans == 2

(***************************************************************************)
(* Small helpers.                                                          *)
(***************************************************************************)
Last(s) == s[Len(s)]

EmptyFun == [x \in {} |-> 0]

\* d[f] = v in a Python dict: f is added or overwritten, the rest kept.
Put(d, f, v) == [x \in (DOMAIN d) \cup {f} |-> IF x = f THEN v ELSE d[x]]

(***************************************************************************)
(* extract_energies.py: extract_data                                       *)
(***************************************************************************)
Fields == {"scf_energy", "zpve", "energy", "enthalpy", "gibbsenergy"}

\* Floats of the logs, as small integers; 0 is a value like any other.
Vals == {0, 1}

\* A token float() rejects (ValueError), or a token the line does not have
\* (IndexError): either way the statement raises.
BadTok == 0 - 1

Tok == Vals \cup {BadTok}

\* The token index line.split()[n] each marker's statement reads.
TokIndex(f) ==
    CASE f = "scf_energy"  -> 4
      [] f = "zpve"        -> 2
      [] f = "energy"      -> 4
      [] f = "enthalpy"    -> 4
      [] f = "gibbsenergy" -> 6

\* A log line, as far as extract_data reads it: the markers its five tests
\* find in it (line[1:9] == 'SCF Done', and four substring tests), and its
\* tokens 2, 4 and 6.  A token no matching marker reads is left BadTok.
\* A line matches at most MaxMarks markers at once.
UsedIndices(marks) == {TokIndex(f) : f \in marks}

LogLines ==
    {l \in [marks : SUBSET Fields, t2 : Tok, t4 : Tok, t6 : Tok] :
        /\ Cardinality(l.marks) <= MaxMarks
        /\ (2 \notin UsedIndices(l.marks) => l.t2 = BadTok)
        /\ (4 \notin UsedIndices(l.marks) => l.t4 = BadTok)
        /\ (6 \notin UsedIndices(l.marks) => l.t6 = BadTok)}

\* line.split()[n]
Token(line, n) == CASE n = 2 -> line.t2 [] n = 4 -> line.t4 [] n = 6 -> line.t6

\* The statement below, were it to leave alone a field the dict already has.
KeepFirstStatement(st, line, f) ==
    IF ~st.ok \/ f \notin line.marks THEN st
    ELSE IF Token(line, TokIndex(f)) = BadTok THEN [ok |-> FALSE, e |-> st.e]
    ELSE IF f \in DOMAIN st.e THEN st
    ELSE [ok |-> TRUE, e |-> Put(st.e, f, Token(line, TokIndex(f)))]

\* One `if <marker test>: energies[f] = float(line.split()[n])` statement,
\* on the running state st = [ok, e]; ok = FALSE once a statement has raised.
MarkerStatement(st, line, f) ==
    IF ~st.ok \/ f \notin line.marks THEN st
    ELSE IF Token(line, TokIndex(f)) = BadTok THEN [ok |-> FALSE, e |-> st.e]
    ELSE [ok |-> TRUE, e |-> Put(st.e, f, Token(line, TokIndex(f)))]

\* A scan that defaults the fields it has not found to 0.
ScanLineDefaulting(e, line) ==
    LET s1 == MarkerStatement([ok |-> TRUE, e |-> e], line, "scf_energy")
        s2 == MarkerStatement(s1, line, "zpve")
        s3 == MarkerStatement(s2, line, "energy")
        s4 == MarkerStatement(s3, line, "enthalpy")
        s5 == MarkerStatement(s4, line, "gibbsenergy")
    IN  [ok |-> s5.ok,
         e  |-> [f \in Fields |-> IF f \in DOMAIN s5.e THEN s5.e[f] ELSE 0]]

\* The body of the `for line in file` loop: the five statements in order.
ScanLine(e, line) ==
    LET s1 == MarkerStatement([ok |-> TRUE, e |-> e], line, "scf_energy")
        s2 == MarkerStatement(s1, line, "zpve")
        s3 == MarkerStatement(s2, line, "energy")
        s4 == MarkerStatement(s3, line, "enthalpy")
    IN  MarkerStatement(s4, line, "gibbsenergy")

\* The values the line carries for its markers (history only).
ParsedOn(line) == [f \in line.marks |-> Token(line, TokIndex(f))]

Override(old, new) ==
    [f \in (DOMAIN old) \cup (DOMAIN new) |->
        IF f \in DOMAIN new THEN new[f] ELSE old[f]]

(***************************************************************************)
(* extract_energies.py: the batch loop and the two renderers               *)
(***************************************************************************)
\* extract_data on a whole file: open() raises when the file is not there,
\* otherwise the lines are scanned in order and the first statement that
\* raises ends the scan.
RECURSIVE ScanFrom(_, _, _)
ScanFrom(e, lines, i) ==
    IF i > Len(lines) THEN [ok |-> TRUE, e |-> e, exc |-> ""]
    ELSE LET r == ScanLine(e, lines[i]) IN
         IF r.ok THEN ScanFrom(r.e, lines, i + 1)
         ELSE [ok |-> FALSE, e |-> r.e, exc |-> "ValueError"]

extract_data(log) ==
    IF ~log.exists THEN [ok |-> FALSE, e |-> EmptyFun, exc |-> "FileNotFoundError"]
    ELSE ScanFrom(EmptyFun, log.lines, 1)

\* os.path.splitext(filename)[0]
splitext(filename) == <<filename.stem, filename.ext>>

\* data[f] for each f of fields, in order; a missing key raises KeyError
\* before anything is printed.
Render(d, filename, fields) ==
    IF \E i \in 1..Len(fields) : fields[i] \notin DOMAIN d
    THEN [ok |-> FALSE, row |-> <<>>, exc |-> "KeyError"]
    ELSE [ok |-> TRUE,
          row |-> <<splitext(filename)[1]>> \o [i \in 1..Len(fields) |-> d[fields[i]]],
          exc |-> ""]

FullFields == <<"scf_energy", "zpve", "energy", "enthalpy", "gibbsenergy">>

ShortFields == <<"scf_energy", "enthalpy", "gibbsenergy">>

print_energies(d, filename) == Render(d, filename, FullFields)

\* A short renderer that still reads the zpve and energy keys.
print_energies_short_reading_all(d, filename) == Render(d, filename, FullFields)

print_energies_short(d, filename) == Render(d, filename, ShortFields)

\* The command line names its files by position; basenames are distinct.
FileName(i) == [stem |-> i, ext |-> "log"]

\* A line carrying one marker, with value v at that marker's token index.
MarkerLine(f, v) ==
    [marks |-> {f},
     t2 |-> IF TokIndex(f) = 2 THEN v ELSE BadTok,
     t4 |-> IF TokIndex(f) = 4 THEN v ELSE BadTok,
     t6 |-> IF TokIndex(f) = 6 THEN v ELSE BadTok]

\* The lines of a log that has the markers of S once each, in the order
\* Gaussian prints them, every value v.
LinesOf(S, v) ==
    LET present == SelectSeq(FullFields, LAMBDA f : f \in S)
    IN  [i \in 1..Len(present) |-> MarkerLine(present[i], v)]

MarkerSets ==
    {Fields, Fields \ {"zpve"}, Fields \ {"energy"},
     {"scf_energy", "enthalpy", "gibbsenergy"}, Fields \ {"scf_energy"}, {}}

\* The logs of the batch runs: a file that is not there, logs with some of
\* the markers, a log whose SCF energy is not a number, and an optimisation
\* log with two 'SCF Done' lines.
EnergyLogs ==
    {[exists |-> FALSE, lines |-> <<>>]}
    \cup {[exists |-> TRUE, lines |-> LinesOf(S, v)] : S \in MarkerSets, v \in Vals}
    \cup {[exists |-> TRUE, lines |-> <<MarkerLine("scf_energy", BadTok)>>]}
    \cup {[exists |-> TRUE,
           lines |-> <<MarkerLine("scf_energy", 0)>> \o LinesOf(Fields, 1)]}

ScanIdle ==
    /\ sc_pc = "idle"
    /\ energies = EmptyFun
    /\ nread = 0
    /\ matched = {}
    /\ lastMarks = {}
    /\ lastParsed = EmptyFun
    /\ firstScf = BadTok

EnergiesInit ==
    /\ en_pc = "loop"
    /\ full \in BOOLEAN
    /\ \E n \in 1..MaxFiles : files \in [1..n -> EnergyLogs]
    /\ k = 0
    /\ data = EmptyFun
    /\ stdout = <<>>
    /\ err = ""

EnergiesIdle ==
    /\ en_pc = "idle"
    /\ full = TRUE
    /\ k = 0
    /\ data = EmptyFun
    /\ stdout = <<>>
    /\ err = ""

\* One iteration of the loop of parse_all_files: extract, then print in the
\* requested layout.  Nothing catches an exception: it ends the run.
\* k counts the files whose row has been printed.
ParseNextFile ==
    /\ en_pc = "loop"
    /\ k < Len(files)
    /\ LET r == extract_data(files[k + 1])
           p == IF full THEN print_energies(r.e, FileName(k + 1))
                        ELSE print_energies_short(r.e, FileName(k + 1))
       IN  IF ~r.ok
           THEN /\ en_pc' = "abort"
                /\ err' = r.exc
                /\ UNCHANGED <<k, data, stdout>>
           ELSE IF ~p.ok
           THEN /\ en_pc' = "abort"
                /\ err' = p.exc
                /\ data' = r.e
                /\ UNCHANGED <<k, stdout>>
           ELSE /\ stdout' = Append(stdout, p.row)
                /\ data' = r.e
                /\ k' = k + 1
                /\ en_pc' = IF k + 1 = Len(files) THEN "done" ELSE "loop"
                /\ err' = ""
    /\ UNCHANGED full
    /\ UNCHANGED <<files, scanVars, adfVars, uvVars>>

EnergiesNext == ParseNextFile

AdfIdle ==
    /\ adf_pc = "idle"
    /\ output_format = "xyz"
    /\ list_of_raw_files = <<>>
    /\ parsed_files = <<>>
    /\ coordinates = <<>>
    /\ cif = <<>>
    /\ cif_written = FALSE
    /\ xyz_files = <<>>

UvIdle ==
    /\ uv_pc = "idle"
    /\ ui = 0
    /\ file = [has_e |-> FALSE, etenergies |-> <<>>, has_o |-> FALSE, etoscs |-> <<>>]
    /\ transitions = <<>>
    /\ dat = <<>>
    /\ artifacts = {}

(***************************************************************************)
(* extract_energies.py on one file, its lines read one per step: the scan  *)
(* of extract_data, then the print of parse_all_files.                     *)
(***************************************************************************)
ScanInit ==
    /\ sc_pc = "scan"
    /\ energies = EmptyFun
    /\ nread = 0
    /\ matched = {}
    /\ lastMarks = {}
    /\ lastParsed = EmptyFun
    /\ firstScf = BadTok
    /\ en_pc = "idle"
    /\ full \in BOOLEAN
    /\ files = <<>>
    /\ k = 0
    /\ data = EmptyFun
    /\ stdout = <<>>
    /\ err = ""

\* One iteration of `for line in file`.
ReadLine ==
    /\ sc_pc = "scan"
    /\ nread < MaxLines
    /\ \E line \in LogLines :
        LET r == ScanLine(energies, line) IN
        /\ nread' = nread + 1
        /\ lastMarks' = line.marks
        /\ energies' = r.e
        /\ IF r.ok
           THEN /\ matched' = matched \cup line.marks
                /\ lastParsed' = Override(lastParsed, ParsedOn(line))
                /\ firstScf' = IF "scf_energy" \in line.marks /\ firstScf = BadTok
                               THEN line.t4 ELSE firstScf
                /\ UNCHANGED <<sc_pc, err>>
           ELSE /\ sc_pc' = "error"
                /\ err' = "ValueError"
                /\ UNCHANGED <<matched, lastParsed, firstScf>>
    /\ UNCHANGED <<en_pc, full, k, data, stdout>>
    /\ UNCHANGED <<files, adfVars, uvVars>>

\* End of file: `return energies`, and the caller prints the record.
ReturnEnergies ==
    /\ sc_pc = "scan"
    /\ LET p == IF full THEN print_energies(energies, FileName(1))
                        ELSE print_energies_short(energies, FileName(1))
       IN  /\ data' = energies
           /\ IF p.ok
              THEN /\ sc_pc' = "done"
                   /\ stdout' = Append(stdout, p.row)
                   /\ err' = ""
              ELSE /\ sc_pc' = "error"
                   /\ err' = p.exc
                   /\ UNCHANGED stdout
    /\ UNCHANGED <<energies, nread, matched, lastMarks, lastParsed, firstScf>>
    /\ UNCHANGED <<en_pc, full, k>>
    /\ UNCHANGED <<files, adfVars, uvVars>>

ScanNext == ReadLine \/ ReturnEnergies

InitEnergies == ScanIdle /\ EnergiesInit /\ AdfIdle /\ UvIdle

SpecEnergies == InitEnergies /\ [][EnergiesNext]_vars

InitScan == ScanInit /\ AdfIdle /\ UvIdle

SpecScan == InitScan /\ [][ScanNext]_vars

(***************************************************************************)
(* Properties of extract_energies.py                                       *)
(***************************************************************************)
\* The files of the batch on which extraction or rendering raises.
FailingFiles ==
    {i \in 1..Len(files) :
        LET r == extract_data(files[i]) IN
        \/ ~r.ok
        \/ ~(IF full THEN print_energies(r.e, FileName(i))
                     ELSE print_energies_short(r.e, FileName(i))).ok}

RowNames == [i \in 1..Len(stdout) |-> stdout[i][1]]

RECURSIVE Ascending(_, _)
Ascending(S, n) ==
    IF n = 0 THEN <<>>
    ELSE IF n \in S THEN Append(Ascending(S, n - 1), n) ELSE Ascending(S, n - 1)

\* C1: when the batch run of the energy report has ended, the report has a
\* row for exactly the files that did not fail, in input order: a failure on
\* file k was caught at the loop and processing went on with file k + 1.
C1_BatchContinuesPastFailure ==
    en_pc \in {"done", "abort"} =>
        RowNames = Ascending((1..Len(files)) \ FailingFiles, Len(files))

\* A record with scf_energy, enthalpy and gibbsenergy that lacks zpve or energy.
ShortOnlyRecord(d) ==
    /\ {"scf_energy", "enthalpy", "gibbsenergy"} \subseteq DOMAIN d
    /\ ("zpve" \notin DOMAIN d \/ "energy" \notin DOMAIN d)

C3_Witness_ShortModeRow ==
    /\ ~full
    /\ ShortOnlyRecord(data)
    /\ Len(stdout) = 2

\* C8: the fields of the record extract_data holds (and returns) are exactly
\* the markers that matched a line so far: an unmatched marker's field is
\* absent, a field parsed as 0 is present with value 0, and a line changes no
\* field whose marker it does not match.
C8_FieldsAreTheMatchedMarkers ==
    /\ [](err # "ValueError" =>
            /\ DOMAIN energies = matched
            /\ \A f \in matched : lastParsed[f] = 0 => energies[f] = 0
            /\ (sc_pc = "done" => DOMAIN data = matched))
    /\ [][\A f \in Fields \ lastMarks' :
            /\ f \in DOMAIN energies' <=> f \in DOMAIN energies
            /\ f \in DOMAIN energies /\ f \in DOMAIN energies'
                   => energies'[f] = energies[f]]_vars

C8_Witness_ZeroPresentOtherAbsent ==
    /\ sc_pc = "done"
    /\ "scf_energy" \in DOMAIN data
    /\ data["scf_energy"] = 0
    /\ "enthalpy" \in DOMAIN data
    /\ "zpve" \notin DOMAIN data
    /\ nread >= 2

\* C10: after any sequence of lines each field holds the value parsed from
\* the last line that carried its marker, and the printed row carries that
\* last SCF energy.
C10_LastOccurrenceWins ==
    err # "ValueError" =>
        /\ \A f \in matched : f \in DOMAIN energies /\ energies[f] = lastParsed[f]
        /\ (sc_pc = "done" =>
               /\ Len(stdout) = 1
               /\ stdout[1][2] = lastParsed["scf_energy"])

C10_Witness_TwoScfLines ==
    /\ sc_pc = "done"
    /\ firstScf # BadTok
    /\ firstScf # lastParsed["scf_energy"]
    /\ stdout[1][2] = lastParsed["scf_energy"]

(***************************************************************************)
(* create_adf_esi.py                                                       *)
(***************************************************************************)
\* cclib's periodic table, for the atomic numbers of the model's logs.
Element(z) == CASE z = 1 -> "H" [] z = 6 -> "C" [] z = 8 -> "O"

\* The position of atom `at` in frame `fr` of the log with seed `s`.
Position(s, fr, at) == <<s, fr, at>>

Frame(s, fr, natom) == [at \in 1..natom |-> Position(s, fr, at)]

AtomNos(s, natom) == [at \in 1..natom |-> IF at = 1 THEN (IF s = 0 THEN 8 ELSE 6) ELSE 1]

\* What cclib makes of a log: atomcoords is an array of ndim dimensions,
\* [frame][atom][xyz] for ndim = 3 and [atom][xyz] for a lone 2-D frame.
Trajectory(s, nframes, natom) ==
    [ok |-> TRUE, ndim |-> 3, natom |-> natom, atomnos |-> AtomNos(s, natom),
     atomcoords |-> [fr \in 1..nframes |-> Frame(s, fr, natom)]]

LoneFrame(s, natom) ==
    [ok |-> TRUE, ndim |-> 2, natom |-> natom, atomnos |-> AtomNos(s, natom),
     atomcoords |-> Frame(s, 1, natom)]

\* A file cclib does not recognise: ccopen returns None and None.parse() raises.
Unrecognised == [ok |-> FALSE, ndim |-> 3, natom |-> 0, atomnos |-> <<>>, atomcoords |-> <<>>]

AdfLogs ==
    {Unrecognised}
    \cup {Trajectory(s, nf, na) : s \in {0, 1}, nf \in 1..MaxFrames, na \in 1..MaxAtoms}
    \cup {LoneFrame(s, na) : s \in {0, 1}, na \in 1..MaxAtoms}

\* file.atomcoords[-1].tolist(): the last element along the first axis, an
\* array of one dimension less.
LastAlongFirstAxis(log) == [depth |-> log.ndim - 1, value |-> Last(log.atomcoords)]

extract_atom_coordinates(log) ==
    IF log.ndim = 3
    THEN [depth |-> 2, value |-> Last(log.atomcoords)]
    ELSE [depth |-> 2, value |-> log.atomcoords]

\* The text of the output file, as a sequence of tokens: the text of a label
\* line, the text of an atom line, or a newline character.
NL == [t |-> "nl", stem |-> 0, el |-> "", xyz |-> <<>>]

LabelText(stem) == [t |-> "label", stem |-> stem, el |-> "", xyz |-> <<>>]

\* element.ljust(3) + " ".join('{:,f}'.format(a).rjust(15) for a in atomcoords)
AtomText(z, row) == [t |-> "atom", stem |-> 0, el |-> Element(z), xyz |-> row]

\* sep.join(list), on strings that are token sequences.
RECURSIVE Join(_, _)
Join(sep, list) ==
    IF Len(list) = 0 THEN <<>>
    ELSE IF Len(list) = 1 THEN list[1]
    ELSE list[1] \o sep \o Join(sep, Tail(list))

\* The strings of structure i, its label taken from the other end of the
\* list of names.
StructureStringsReversed(i, names, geoms, atoms) ==
    <<<<LabelText(splitext(names[Len(names) + 1 - i])[1])>>>>
    \o [j \in 1..Len(geoms[i].value) |-> <<AtomText(atoms[i][j], geoms[i].value[j])>>]
    \o <<<<NL>>>>

\* The strings write_cif appends to `output` for structure i.
StructureStrings(i, names, geoms, atoms) ==
    <<<<LabelText(splitext(names[i])[1])>>>>
    \o [j \in 1..Len(geoms[i].value) |-> <<AtomText(atoms[i][j], geoms[i].value[j])>>]
    \o <<<<NL>>>>

RECURSIVE OutputFrom(_, _, _, _)
OutputFrom(i, names, geoms, atoms) ==
    IF i > Len(geoms) THEN <<>>
    ELSE StructureStrings(i, names, geoms, atoms) \o OutputFrom(i + 1, names, geoms, atoms)

\* write_cif: the first loop takes each log's atomcoords[-1]; the second
\* builds `output`, and iterating over the floats of a lone row raises
\* TypeError before the file is opened.
write_cif(parsed, names) ==
    LET geoms == [i \in 1..Len(parsed) |-> LastAlongFirstAxis(parsed[i])]
        atoms == [i \in 1..Len(parsed) |-> parsed[i].atomnos]
    IN  IF \E i \in 1..Len(parsed) : geoms[i].depth # 2
        THEN [ok |-> FALSE, coordinates |-> geoms, text |-> <<>>]
        ELSE [ok |-> TRUE, coordinates |-> geoms,
              text |-> Join(<<NL>>, OutputFrom(1, names, geoms, atoms) \o <<<<NL>>>>)]

AdfInit ==
    /\ adf_pc = "start"
    /\ output_format \in {"xyz", "cif"}
    /\ \E n \in 1..MaxCclibFiles : files \in [1..n -> AdfLogs]
    /\ list_of_raw_files = [i \in 1..Len(files) |-> FileName(i)]
    /\ parsed_files = <<>>
    /\ coordinates = <<>>
    /\ cif = <<>>
    /\ cif_written = FALSE
    /\ xyz_files = <<>>

\* parse_all_files: every file is opened and parsed before anything is
\* written; one unrecognised file raises and ends the run.
parse_all_files(logs) ==
    IF \E i \in 1..Len(logs) : ~logs[i].ok
    THEN [ok |-> FALSE, parsed |-> <<>>]
    ELSE [ok |-> TRUE, parsed |-> logs]

ParseAllFiles ==
    /\ adf_pc = "start"
    /\ LET r == parse_all_files(files) IN
       /\ parsed_files' = r.parsed
       /\ adf_pc' = IF r.ok THEN "parsed" ELSE "abort"
    /\ UNCHANGED <<output_format, list_of_raw_files, coordinates, cif, cif_written, xyz_files>>
    /\ UNCHANGED <<files, scanVars, enVars, uvVars>>

\* main, output_format == 'cif': one call of write_cif.
WriteCif ==
    /\ adf_pc = "parsed"
    /\ output_format = "cif"
    /\ LET r == write_cif(parsed_files, list_of_raw_files) IN
       /\ coordinates' = r.coordinates
       /\ cif' = r.text
       /\ cif_written' = r.ok
       /\ adf_pc' = IF r.ok THEN "done" ELSE "abort"
    /\ UNCHANGED <<output_format, list_of_raw_files, parsed_files, xyz_files>>
    /\ UNCHANGED <<files, scanVars, enVars, uvVars>>

\* main, output_format == 'xyz': one iteration of the loop, write_xyz on
\* the next parsed file.  cclib's writexyz gives the last geometry; the two
\* header lines are dropped.  What cclib does with a 2-D atomcoords is not
\* this repository's code: it either raises or writes the lone frame.
WriteXyz ==
    /\ adf_pc = "parsed"
    /\ output_format = "xyz"
    /\ Len(xyz_files) < Len(parsed_files)
    /\ LET i == Len(xyz_files) + 1
           log == parsed_files[i]
           geom == extract_atom_coordinates(log).value
           artifact == [name |-> splitext(list_of_raw_files[i])[1],
                        atoms |-> [j \in 1..Len(geom) |-> <<AtomText(log.atomnos[j], geom[j])>>]]
       IN  \/ /\ xyz_files' = Append(xyz_files, artifact)
              /\ adf_pc' = IF i = Len(parsed_files) THEN "done" ELSE "parsed"
           \/ /\ log.ndim = 2
              /\ adf_pc' = "abort"
              /\ UNCHANGED xyz_files
    /\ UNCHANGED <<output_format, list_of_raw_files, parsed_files, coordinates, cif, cif_written>>
    /\ UNCHANGED <<files, scanVars, enVars, uvVars>>

AdfNext == ParseAllFiles \/ WriteCif \/ WriteXyz

InitAdf == ScanIdle /\ EnergiesIdle /\ AdfInit /\ UvIdle

SpecAdf == InitAdf /\ [][AdfNext]_vars

(***************************************************************************)
(* Properties of create_adf_esi.py                                         *)
(***************************************************************************)
\* The lines of a text, as reading the file back gives them: each newline
\* ends a line, and a line with no text is blank (<<>>).
RECURSIVE SplitFrom(_, _, _, _)
SplitFrom(text, i, cur, acc) ==
    IF i > Len(text) THEN (IF cur = <<>> THEN acc ELSE Append(acc, cur))
    ELSE IF text[i] = NL THEN SplitFrom(text, i + 1, <<>>, Append(acc, cur))
    ELSE SplitFrom(text, i + 1, Append(cur, text[i]), acc)

TextLines(text) == SplitFrom(text, 1, <<>>, <<>>)

\* The structure blocks of a sequence of lines: the maximal runs of
\* non-blank lines.
RECURSIVE GroupFrom(_, _, _, _)
GroupFrom(lines, i, cur, acc) ==
    IF i > Len(lines) THEN (IF cur = <<>> THEN acc ELSE Append(acc, cur))
    ELSE IF lines[i] = <<>>
         THEN GroupFrom(lines, i + 1, <<>>, IF cur = <<>> THEN acc ELSE Append(acc, cur))
    ELSE GroupFrom(lines, i + 1, Append(cur, lines[i]), acc)

Blocks(lines) == GroupFrom(lines, 1, <<>>, <<>>)

\* Frame N of a log with N frames: the last frame of a trajectory, the
\* whole array of a lone 2-D frame.
LastFrame(log) ==
    IF log.ndim = 3 THEN log.atomcoords[Len(log.atomcoords)] ELSE log.atomcoords

\* The label line and the atom lines of input file i, from the log on disk.
ExpectedBlock(i) ==
    <<<<LabelText(i)>>>>
    \o [j \in 1..files[i].natom |->
          <<AtomText(files[i].atomnos[j], LastFrame(files[i])[j])>>]

\* C2: the geometry taken from every parsed log, by extract_atom_coordinates
\* and by write_cif, is its last frame, whole, with natom atoms - also for a
\* lone 2-D frame.
C2_LastFrameWhole ==
    (adf_pc \in {"done", "abort"} /\ output_format = "cif" /\ Len(parsed_files) > 0) =>
        \A i \in 1..Len(parsed_files) :
            /\ extract_atom_coordinates(parsed_files[i]).value = LastFrame(parsed_files[i])
            /\ Len(coordinates[i].value) = parsed_files[i].natom
            /\ coordinates[i].value = LastFrame(parsed_files[i])

\* C4: in the written multi-structure file the i-th structure block is the
\* label of input file i followed by the atoms (symbol and position) of the
\* last frame of file i's own log.
C4_BlocksFollowInputOrder ==
    cif_written =>
        Blocks(TextLines(cif)) = [i \in 1..Len(files) |-> ExpectedBlock(i)]

C4_Witness_TwoDifferentStructures ==
    /\ cif_written
    /\ Len(files) = 2
    /\ files[1].atomnos # files[2].atomnos
    /\ Len(files[1].atomcoords) = 2

RECURSIVE ExpectedLayoutFrom(_)
ExpectedLayoutFrom(i) ==
    IF i > Len(files) THEN <<>>
    ELSE ExpectedBlock(i) \o <<<<>>>> \o ExpectedLayoutFrom(i + 1)

\* C7: the written file is, per input file, one label line and natom atom
\* lines followed by exactly one blank line (one blank line between
\* structures, one trailing blank line after the last).
C7_OneBlankLineBetweenStructures ==
    cif_written => TextLines(cif) = ExpectedLayoutFrom(1)

(***************************************************************************)
(* create_uv_plot.py                                                       *)
(* Excitation energies are whole wavenumbers (cm-1); oscillator strengths  *)
(* are counted in units of 0.00001; wavelengths written are counted in     *)
(* units of 0.01 nm and strengths written in units of 0.0001.              *)
(***************************************************************************)
\* The literal 10E6 of format_transitions.
TenE6 == 10000000

\* Excitation energies of the model's logs.  25600 makes 10E6/x a tie
\* (390.625) that the binary float holds exactly.
EnergyInputs == {25600, 28300, 34000}

\* Oscillator strengths of the model's logs: 0.26667, and 0.03125, a tie
\* the binary float holds exactly.  A decimal tie that is not a binary
\* fraction (0.00005) rounds by its binary neighbour and is left out.
OscInputs == {3125, 26667}

SeqsUpTo(S, n) == UNION {[1..m -> S] : m \in 0..n}

\* What cclib makes of a log: etenergies and etoscs are attributes the
\* parsed object has only when the log had them.
UvLogs ==
    {[has_e |-> he, etenergies |-> e, has_o |-> ho, etoscs |-> o] :
        he \in BOOLEAN, ho \in BOOLEAN,
        e \in SeqsUpTo(EnergyInputs, MaxTrans), o \in SeqsUpTo(OscInputs, MaxTrans)}

ParsedUvLogs == {l \in UvLogs : (~l.has_e => l.etenergies = <<>>) /\ (~l.has_o => l.etoscs = <<>>)}

Min(a, b) == IF a <= b THEN a ELSE b

\* list(zip(a, b)): pairs by index, as many as the shorter sequence has.
zip(a, b) == [i \in 1..Min(Len(a), Len(b)) |-> <<a[i], b[i]>>]

\* The pairs ordered by rising energy.
RECURSIVE SortByEnergy(_)
SortByEnergy(s) ==
    IF Len(s) = 0 THEN <<>>
    ELSE LET m == CHOOSE i \in 1..Len(s) : \A j \in 1..Len(s) : s[i][1] <= s[j][1]
             rest == [j \in 1..(Len(s) - 1) |-> IF j < m THEN s[j] ELSE s[j + 1]]
         IN  <<s[m]>> \o SortByEnergy(rest)

get_transitions_sorted(log) ==
    IF ~log.has_e \/ ~log.has_o THEN [ok |-> FALSE, list |-> <<>>]
    ELSE [ok |-> TRUE, list |-> SortByEnergy(zip(log.etenergies, log.etoscs))]

\* get_transitions: reading an attribute the parsed object lacks raises
\* AttributeError; otherwise the two sequences are zipped.
get_transitions(log) ==
    IF ~log.has_e \/ ~log.has_o THEN [ok |-> FALSE, list |-> <<>>]
    ELSE [ok |-> TRUE, list |-> zip(log.etenergies, log.etoscs)]

\* round() of num/den to a whole number: to nearest, an exact tie to even.
RoundHalfEven(num, den) ==
    LET q == num \div den
        r == num % den
    IN  IF 2 * r < den THEN q
        ELSE IF 2 * r > den THEN q + 1
        ELSE IF q % 2 = 0 THEN q ELSE q + 1

WavelengthWithTenToTheSix(w) == RoundHalfEven(100 * (TenE6 \div 10), w)

\* round(10E6/x[0], 2), printed with '{:.2f}': hundredths of a nanometre.
Wavelength(w) == RoundHalfEven(100 * TenE6, w)

\* round(x[1], 4), printed with '{:.4f}': ten-thousandths.
Strength(f) == RoundHalfEven(f, 10)

format_transitions(list) ==
    [i \in 1..Len(list) |-> <<Wavelength(list[i][1]), Strength(list[i][2])>>]

UvInit ==
    /\ uv_pc = "start"
    /\ \E n \in 1..MaxCclibFiles : files \in [1..n -> {[ok |-> TRUE], [ok |-> FALSE]}]
    /\ ui = 0
    /\ file = [has_e |-> FALSE, etenergies |-> <<>>, has_o |-> FALSE, etoscs |-> <<>>]
    /\ transitions = <<>>
    /\ dat = <<>>
    /\ artifacts = {}

\* parse_all_files: every file is opened and parsed before the loop; one
\* unrecognised file raises and ends the run.
UvParseAllFiles ==
    /\ uv_pc = "start"
    /\ uv_pc' = IF \E i \in 1..Len(files) : ~files[i].ok THEN "abort" ELSE "loop"
    /\ UNCHANGED <<ui, file, transitions, dat, artifacts>>
    /\ UNCHANGED <<files, scanVars, enVars, adfVars>>

\* One iteration of the loop of main: get_transitions, format_transitions,
\* write_transitions (.dat: a header line, then the rows) and write_gnuplot
\* (.plt).  What the parsed log holds is read here for the first time, so it
\* is chosen here.
UvProcessFile ==
    /\ uv_pc = "loop"
    /\ ui < Len(files)
    /\ \E log \in ParsedUvLogs :
        LET t == get_transitions(log) IN
        /\ file' = log
        /\ ui' = ui + 1
        /\ IF t.ok
           THEN /\ transitions' = t.list
                /\ dat' = format_transitions(t.list)
                /\ artifacts' = artifacts \cup {ui + 1}
                /\ uv_pc' = IF ui + 1 = Len(files) THEN "done" ELSE "loop"
           ELSE /\ uv_pc' = "abort"
                /\ UNCHANGED <<transitions, dat, artifacts>>
    /\ UNCHANGED <<files, scanVars, enVars, adfVars>>

UvNext == UvParseAllFiles \/ UvProcessFile

InitUv == ScanIdle /\ EnergiesIdle /\ AdfIdle /\ UvInit

SpecUv == InitUv /\ [][UvNext]_vars

(***************************************************************************)
(* Properties of create_uv_plot.py                                         *)
(***************************************************************************)
\* The last loop iteration ran on a log with both sequences.
ProcessedBoth == ui >= 1 /\ file.has_e /\ file.has_o

Abs(x) == IF x < 0 THEN 0 - x ELSE x

\* wl hundredths of a nanometre is 10,000,000 / w nm rounded to 2 decimals:
\* no other multiple of 0.01 nm is nearer.
IsWavelengthOf(wl, w) == 2 * Abs(100 * 10000000 - wl * w) <= w

\* s ten-thousandths is f hundred-thousandths rounded to 4 decimals.
IsStrengthOf(s, f) == 2 * Abs(f - 10 * s) <= 10

\* C5: for sequences of equal length n, get_transitions gives n records,
\* the i-th being (energies[i], oscs[i]), and format_transitions gives n
\* rows, the i-th made from the i-th record.
C5_IndexPairedInSourceOrder ==
    (ProcessedBoth /\ Len(file.etenergies) = Len(file.etoscs)) =>
        /\ Len(transitions) = Len(file.etenergies)
        /\ \A i \in 1..Len(transitions) :
              transitions[i] = <<file.etenergies[i], file.etoscs[i]>>
        /\ Len(dat) = Len(file.etenergies)
        /\ \A i \in 1..Len(dat) :
              /\ IsWavelengthOf(dat[i][1], file.etenergies[i])
              /\ IsStrengthOf(dat[i][2], file.etoscs[i])

C5_Witness_UnsortedPairs ==
    /\ ProcessedBoth
    /\ Len(file.etenergies) = MaxTrans
    /\ Len(file.etoscs) = MaxTrans
    /\ file.etenergies[1] > file.etenergies[2]
    /\ file.etoscs[1] < file.etoscs[2]
    /\ Len(dat) = MaxTrans

\* C6: when either sequence is absent the extraction fails, and for
\* sequences of unequal length no record list is returned and no .dat or
\* .plt is written for the file.
C6_UnequalLengthsRejected ==
    /\ (ui >= 1 /\ (~file.has_e \/ ~file.has_o)) =>
           (uv_pc = "abort" /\ ui \notin artifacts)
    /\ (ProcessedBoth /\ Len(file.etenergies) # Len(file.etoscs)) =>
           (uv_pc = "abort" /\ ui \notin artifacts)

\* C9: every row written is the wavelength 10,000,000 / w nm rounded to 2
\* decimals and the strength rounded to 4 decimals; 28,300 cm-1 gives 353.36
\* nm and 0.26667 gives 0.2667.
C9_WavelengthAndStrengthRounding ==
    (ProcessedBoth /\ ui \in artifacts) =>
        /\ Len(dat) = Len(transitions)
        /\ \A i \in 1..Len(dat) :
              /\ IsWavelengthOf(dat[i][1], transitions[i][1])
              /\ IsStrengthOf(dat[i][2], transitions[i][2])
              /\ (transitions[i][1] = 28300 => dat[i][1] = 35336)
              /\ (transitions[i][2] = 26667 => dat[i][2] = 2667)

C9_Witness_SpecExample ==
    /\ ProcessedBoth
    /\ Len(dat) >= 1
    /\ transitions[1] = <<28300, 26667>>
    /\ dat[1] = <<35336, 2667>>

=============================================================================
